---- MODULE Spec2Model ----
(***************************************************************************)
(* Model of vahan_dashboard.py: the yearly CSV loader load_clean_data, its *)
(* memoization, the empty check, the yearly / manufacturer aggregates and  *)
(* the refresh button, as a state machine over the files on disk.          *)
(*                                                                         *)
(* Text is a sequence of one-character strings, so that trimming, number   *)
(* parsing and date formatting are computed and not assumed.  Column       *)
(* labels are compared only for equality and are plain strings.            *)
(***************************************************************************)
EXTENDS Integers, Sequences, FiniteSets, TLC

VARIABLES files, cache, df, page, button, yearly_data, top_manufacturers,
          top_5, event, writes

(* files              the yearly CSV files on disk, by year (lines 39-43)  *)
(* cache              the result st.cache_data holds for load_clean_data,  *)
(*                    with the sidebar lines it replays (lines 33-34)      *)
(* df                 the table the last run of the script used (line 97)  *)
(* page               "fresh" before the first run, "halted" after a run   *)
(*                    that stopped at line 101, "rendered" otherwise       *)
(* button             the Refresh Analysis button is on the page (296)     *)
(* yearly_data        yearly totals with YoY_Growth (lines 144-145)        *)
(* top_manufacturers  nlargest(10) of the manufacturer totals (line 178)   *)
(* top_5              nlargest(5) of the manufacturer totals (line 236)    *)
(* event              what the last step was: a run, a refresh, a file     *)
(*                    change                                               *)
(* writes             the number of file changes so far                    *)

vars == <<files, cache, df, page, button, yearly_data, top_manufacturers,
          top_5, event, writes>>

----------------------------------------------------------------------------
(* Text helpers                                                            *)

Digits == <<"0", "1", "2", "3", "4", "5", "6", "7", "8", "9">>

IsDigit(c) == \E i \in 1..10 : Digits[i] = c

DigitVal(c) == (CHOOSE i \in 1..10 : Digits[i] = c) - 1

RECURSIVE NatToText(_)
NatToText(n) ==
    IF n < 10 THEN <<Digits[n + 1]>>
    ELSE NatToText(n \div 10) \o <<Digits[(n % 10) + 1]>>

\* str(int)
IntToText(n) == IF n < 0 THEN <<"-">> \o NatToText(-n) ELSE NatToText(n)

RECURSIVE TextToNat(_)
TextToNat(s) ==
    IF Len(s) = 0 THEN 0
    ELSE 10 * TextToNat(SubSeq(s, 1, Len(s) - 1)) + DigitVal(s[Len(s)])

AllDigits(s) == Len(s) > 0 /\ \A i \in 1..Len(s) : IsDigit(s[i])

\* characters str.strip() removes (the whitespace that occurs in the inputs)
IsSpace(c) == c \in {" ", "\t"}

RECURSIVE LStrip(_)
LStrip(s) ==
    IF Len(s) > 0 /\ IsSpace(s[1]) THEN LStrip(Tail(s)) ELSE s

RECURSIVE RStrip(_)
RStrip(s) ==
    IF Len(s) > 0 /\ IsSpace(s[Len(s)]) THEN RStrip(SubSeq(s, 1, Len(s) - 1))
    ELSE s

\* str.strip()
Strip(s) == RStrip(LStrip(s))

\* code-point order of the characters that occur in manufacturer names
Alphabet == <<"\t", " ", "-", "/", "0", "1", "2", "3", "4", "5", "6", "7",
              "8", "9", "A", "B", "C", "D", "E", "F", "G", "H", "I", "J",
              "K", "L", "M", "N", "T", "a", "j", "n", "t", "x">>

Ord(c) == CHOOSE i \in 1..Len(Alphabet) : Alphabet[i] = c

\* Python str comparison a < b (lexicographic by code point)
RECURSIVE TextLess(_, _)
TextLess(a, b) ==
    IF Len(b) = 0 THEN FALSE
    ELSE IF Len(a) = 0 THEN TRUE
    ELSE IF a[1] = b[1] THEN TextLess(Tail(a), Tail(b))
    ELSE Ord(a[1]) < Ord(b[1])

Min(a, b) == IF a < b THEN a ELSE b

RECURSIVE SeqSum(_)
SeqSum(s) == IF Len(s) = 0 THEN 0 ELSE s[1] + SeqSum(Tail(s))

\* concatenation of a sequence of sequences
RECURSIVE Flatten(_)
Flatten(ss) == IF Len(ss) = 0 THEN <<>> ELSE ss[1] \o Flatten(Tail(ss))

----------------------------------------------------------------------------
(* The files on disk.  A file is absent, present but not readable as a      *)
(* table, or a header line followed by rows of cells; every cell is text.   *)

years == <<2021, 2022, 2023, 2024>>

Years == {years[i] : i \in 1..Len(years)}

Missing == [kind |-> "missing", header |-> <<>>, rows |-> <<>>]

Garbled == [kind |-> "garbled", header |-> <<>>, rows |-> <<>>]

Csv(h, r) == [kind |-> "csv", header |-> h, rows |-> r]

\* os.path.exists(filename)
exists(f) == f.kind # "missing"

----------------------------------------------------------------------------
(* pd.read_csv(filename, encoding='latin1')                                *)

NaN == [t |-> "nan", s |-> <<>>, n |-> 0]

Str(s) == [t |-> "str", s |-> s, n |-> 0]

Num(n) == [t |-> "num", s |-> <<>>, n |-> n]

\* the default NA tokens of the reader that occur in the inputs
NaValues == { <<>>, <<"N", "/", "A">>, <<"N", "A">>, <<"n", "a", "n">> }

ParseCell(c) == IF c \in NaValues THEN NaN ELSE Str(c)

\* the reader renames a repeated header label X to X.1, X.2, ...
MangleDupeCols(h) ==
    [i \in 1..Len(h) |->
        LET before == Cardinality({j \in 1..(i - 1) : h[j] = h[i]})
        IN  IF before = 0 THEN h[i] ELSE h[i] \o "." \o ToString(before)]

\* a file that is not a table, or has no columns at all, raises
ReadRaises(f) == f.kind = "garbled" \/ Len(f.header) = 0

read_csv(f) ==
    [columns |-> MangleDupeCols(f.header),
     data    |-> [r \in 1..Len(f.rows) |->
                    [p \in 1..Len(f.header) |-> ParseCell(f.rows[r][p])]]]

----------------------------------------------------------------------------
(* Column naming (lines 45-58)                                             *)

expected_columns ==
    <<"SNo", "Manufacturer", "JAN", "FEB", "MAR", "APR", "MAY", "JUN",
      "JUL", "AUG", "SEP", "OCT", "NOV", "DEC", "TOTAL">>

actual_columns(frame) ==
    SubSeq(expected_columns, 1, Min(Len(expected_columns), Len(frame.columns)))

\* df.columns = actual_columns + list(df.columns[len(actual_columns):])
RenameColumns(frame) ==
    [frame EXCEPT !.columns =
        actual_columns(frame)
            \o SubSeq(frame.columns, Len(actual_columns(frame)) + 1,
                      Len(frame.columns))]

----------------------------------------------------------------------------
(* Melt to long format (lines 60-69)                                       *)

months == <<"JAN", "FEB", "MAR", "APR", "MAY", "JUN",
            "JUL", "AUG", "SEP", "OCT", "NOV", "DEC">>

InColumns(label, columns) == \E p \in 1..Len(columns) : columns[p] = label

available_months(columns) ==
    LET Present(m) == InColumns(m, columns) IN SelectSeq(months, Present)

\* every position carrying the label, left to right
PositionsOf(label, columns) ==
    LET Carries(p) == columns[p] = label
    IN  SelectSeq([p \in 1..Len(columns) |-> p], Carries)

\* the value columns of the melt: label by label, each label's positions
ValuePositions(columns) ==
    LET av == available_months(columns)
    IN  Flatten([i \in 1..Len(av) |-> PositionsOf(av[i], columns)])

\* melt raises KeyError when an id column is not among the labels
MeltRaises(frame) ==
    ~InColumns("SNo", frame.columns) \/ ~InColumns("Manufacturer", frame.columns)

FirstPos(label, columns) == PositionsOf(label, columns)[1]

\* One long row per (value column, raw row), column after column.  row and
\* pos record which raw cell the long row was made from.
melt(frame) ==
    LET vp == ValuePositions(frame.columns)
        nr == Len(frame.data)
        sn == FirstPos("SNo", frame.columns)
        mf == FirstPos("Manufacturer", frame.columns)
    IN  [k \in 1..(Len(vp) * nr) |->
            LET pos == vp[((k - 1) \div nr) + 1]
                row == ((k - 1) % nr) + 1
            IN  [SNo           |-> frame.data[row][sn],
                 Manufacturer  |-> frame.data[row][mf],
                 Month         |-> frame.columns[pos],
                 Registrations |-> frame.data[row][pos],
                 row           |-> row,
                 pos           |-> pos]]

----------------------------------------------------------------------------
(* Clean data, year, names, calendar fields (lines 71-83)                  *)

\* the text is an optionally signed run of digits
IsIntText(s) ==
    \/ AllDigits(s)
    \/ (Len(s) > 1 /\ s[1] = "-" /\ AllDigits(Tail(s)))

\* pd.to_numeric(..., errors='coerce') on one value
to_numeric(v) ==
    IF v.t = "num" THEN v
    ELSE IF v.t = "str" /\ IsIntText(v.s)
         THEN Num(IF v.s[1] = "-" THEN -TextToNat(Tail(v.s)) ELSE TextToNat(v.s))
    ELSE NaN

\* the rows are kept, none is dropped
dropna_kept(long) == long

\* df_long.dropna(subset=['Registrations'])
dropna(long) ==
    LET HasValue(r) == r.Registrations.t # "nan" IN SelectSeq(long, HasValue)

\* astype(str) on one value: a missing value becomes the text nan
astype_str(v) ==
    IF v.t = "nan" THEN <<"n", "a", "n">>
    ELSE IF v.t = "num" THEN IntToText(v.n)
    ELSE v.s

month_map ==
    [m \in {months[i] : i \in 1..Len(months)} |->
        CHOOSE i \in 1..Len(months) : months[i] = m]

\* month before year
DateText_month_first(year, month_num) ==
    IntToText(month_num) \o <<"-">> \o IntToText(year) \o <<"-", "0", "1">>

\* Year.astype(str) + '-' + Month_Num.astype(str) + '-01'
DateText(year, month_num) ==
    IntToText(year) \o <<"-">> \o IntToText(month_num) \o <<"-", "0", "1">>

RECURSIVE SplitOn(_, _)
SplitOn(s, sep) ==
    IF \A i \in 1..Len(s) : s[i] # sep THEN <<s>>
    ELSE LET i == CHOOSE j \in 1..Len(s) :
                     s[j] = sep /\ \A k \in 1..(j - 1) : s[k] # sep
         IN  <<SubSeq(s, 1, i - 1)>> \o SplitOn(SubSeq(s, i + 1, Len(s)), sep)

\* pd.to_datetime of a year-month-day text
to_datetime(s) ==
    LET part == SplitOn(s, "-")
    IN  [y |-> TextToNat(part[1]), m |-> TextToNat(part[2]),
         d |-> TextToNat(part[3])]

\* lines 72-83 applied to the melted rows of one year
CleanRows(long, year) ==
    LET coerced == [k \in 1..Len(long) |->
                      [long[k] EXCEPT !.Registrations = to_numeric(@)]]
        kept    == dropna(coerced)
    IN  [k \in 1..Len(kept) |->
            [SNo           |-> kept[k].SNo,
             Manufacturer  |-> Strip(astype_str(kept[k].Manufacturer)),
             Month         |-> kept[k].Month,
             Registrations |-> kept[k].Registrations.n,
             Year          |-> year,
             Month_Num     |-> month_map[kept[k].Month],
             Date          |-> to_datetime(DateText(year, month_map[kept[k].Month])),
             row           |-> kept[k].row,
             pos           |-> kept[k].pos]]

----------------------------------------------------------------------------
(* load_clean_data (lines 34-93)                                           *)

\* the try block of one year raises
Raises(f) == ReadRaises(f) \/ MeltRaises(RenameColumns(read_csv(f)))

\* the try block of one year, when nothing raises
ProcessYear(year, f) == CleanRows(melt(RenameColumns(read_csv(f))), year)

Message(level, n) == [level |-> level, n |-> n]

\* a year that raises empties what was collected so far
LoopBody_reset(acc, year, fs) ==
    IF exists(fs[year])
    THEN IF Raises(fs[year])
         THEN [all_data |-> <<>>,
               sidebar  |-> [acc.sidebar EXCEPT ![year] = Message("error", 0)]]
         ELSE LET df_long == ProcessYear(year, fs[year])
              IN  [all_data |-> Append(acc.all_data, df_long),
                   sidebar  |-> [acc.sidebar EXCEPT ![year] =
                                   Message("success", Len(df_long))]]
    ELSE [acc EXCEPT !.sidebar[year] = Message("warning", 0)]

\* one pass of the for loop; acc is (all_data, the sidebar lines written)
LoopBody(acc, year, fs) ==
    IF exists(fs[year])
    THEN IF Raises(fs[year])
         THEN [acc EXCEPT !.sidebar[year] = Message("error", 0)]
         ELSE LET df_long == ProcessYear(year, fs[year])
              IN  [all_data |-> Append(acc.all_data, df_long),
                   sidebar  |-> [acc.sidebar EXCEPT ![year] =
                                   Message("success", Len(df_long))]]
    ELSE [acc EXCEPT !.sidebar[year] = Message("warning", 0)]

RECURSIVE Loop(_, _, _)
Loop(i, acc, fs) ==
    IF i > Len(years) THEN acc
    ELSE Loop(i + 1, LoopBody(acc, years[i], fs), fs)

\* pd.concat(all_data, ignore_index=True) if all_data else pd.DataFrame();
\* the sidebar lines are stored with the value and replayed on a cache hit
load_clean_data(fs) ==
    LET acc == Loop(1, [all_data |-> <<>>,
                        sidebar  |-> [y \in Years |-> Message("none", 0)]], fs)
    IN  [value   |-> IF Len(acc.all_data) > 0 THEN Flatten(acc.all_data) ELSE <<>>,
         sidebar |-> acc.sidebar]

----------------------------------------------------------------------------
(* Aggregates (lines 144-145, 178, 232-236)                                *)

RECURSIVE SortedInts(_)
SortedInts(S) ==
    IF S = {} THEN <<>>
    ELSE LET m == CHOOSE x \in S : \A o \in S : x <= o
         IN  <<m>> \o SortedInts(S \ {m})

RECURSIVE SortedTexts(_)
SortedTexts(S) ==
    IF S = {} THEN <<>>
    ELSE LET m == CHOOSE x \in S : \A o \in S \ {x} : TextLess(x, o)
         IN  <<m>> \o SortedTexts(S \ {m})

\* the sum of Registrations over the rows whose column col holds key
RegistrationsWhere(d, col, key) ==
    LET InGroup(r) == r[col] = key
        sel        == SelectSeq(d, InGroup)
    IN  SeqSum([k \in 1..Len(sel) |-> sel[k].Registrations])

\* df.groupby('Year')['Registrations'].sum(): one row per year that has
\* rows, in ascending order of the year
groupby_Year_sum(d) ==
    LET keys == SortedInts({d[k].Year : k \in 1..Len(d)})
    IN  [i \in 1..Len(keys) |->
            [Year          |-> keys[i],
             Registrations |-> RegistrationsWhere(d, "Year", keys[i])]]

NoValue == [k |-> "nan", num |-> 0, den |-> 1]

Ratio(num, den) == [k |-> "val", num |-> num, den |-> den]

Infinite(sign) == [k |-> IF sign > 0 THEN "inf" ELSE "-inf", num |-> 0, den |-> 1]

\* pct_change() * 100 of one row against the row before it: the value is
\* the exact fraction num / den; a zero divisor gives nan or an infinity
PctChange100(prev, cur) ==
    IF prev = 0
    THEN IF cur = 0 THEN NoValue ELSE Infinite(cur)
    ELSE Ratio((cur - prev) * 100, prev)

\* yearly_data with its YoY_Growth column
YearlyData(d) ==
    LET g == groupby_Year_sum(d)
    IN  [i \in 1..Len(g) |->
            [Year          |-> g[i].Year,
             Registrations |-> g[i].Registrations,
             YoY_Growth    |-> IF i = 1 THEN NoValue
                               ELSE PctChange100(g[i - 1].Registrations,
                                                 g[i].Registrations)]]

\* the group keys in the order of their first row (sort=False)
GroupKeys_unsorted(d) ==
    LET First(k) == \A j \in 1..(k - 1) : d[j].Manufacturer # d[k].Manufacturer
        firsts   == SelectSeq([k \in 1..Len(d) |-> k], First)
    IN  [i \in 1..Len(firsts) |-> d[firsts[i]].Manufacturer]

\* the order of the group keys of groupby('Manufacturer'): sorted
GroupKeys(d) == SortedTexts({d[k].Manufacturer : k \in 1..Len(d)})

\* df.groupby('Manufacturer')['Registrations'].sum()
groupby_Manufacturer_sum(d) ==
    LET keys == GroupKeys(d)
    IN  [i \in 1..Len(keys) |->
            [Manufacturer  |-> keys[i],
             Registrations |-> RegistrationsWhere(d, "Manufacturer", keys[i])]]

\* x goes after every entry that is at least as large (keep='first')
RECURSIVE InsertDesc(_, _)
InsertDesc(x, sorted) ==
    IF Len(sorted) = 0 THEN <<x>>
    ELSE IF sorted[1].Registrations >= x.Registrations
         THEN <<sorted[1]>> \o InsertDesc(x, Tail(sorted))
    ELSE <<x>> \o sorted

RECURSIVE SortDesc(_, _)
SortDesc(series, sorted) ==
    IF Len(series) = 0 THEN sorted
    ELSE SortDesc(Tail(series), InsertDesc(series[1], sorted))

\* Series.nlargest(n)
nlargest(series, n) ==
    SubSeq(SortDesc(series, <<>>), 1, Min(n, Len(series)))

TopTen == 10

TopFive == 5

----------------------------------------------------------------------------
(* One run of the page script, and the refresh button                      *)

NoSidebar == [y \in Years |-> Message("none", 0)]

NoCache == [full |-> FALSE, value |-> <<>>, sidebar |-> NoSidebar]

Stored(result) ==
    [full |-> TRUE, value |-> result.value, sidebar |-> result.sidebar]

\* no memo: every call runs the function
CachedCall_recompute(c, fs) == Stored(load_clean_data(fs))

\* @st.cache_data: the stored result, when there is one, is what the call
\* returns; otherwise the function runs and its result is stored
CachedCall(c, fs) == IF c.full THEN c ELSE Stored(load_clean_data(fs))

\* a table is never taken to be empty
empty_never(d) == FALSE

\* df.empty
empty(d) == Len(d) = 0

\* lines 95-298 with the memo c at the start of the run
RunScript(c, ev) ==
    /\ cache' = CachedCall(c, files)
    /\ df' = cache'.value
    /\ event' = ev
    /\ UNCHANGED <<files, writes>>
    /\ IF empty(df')
       THEN /\ page' = "halted"
            /\ button' = FALSE
            /\ yearly_data' = <<>>
            /\ top_manufacturers' = <<>>
            /\ top_5' = <<>>
       ELSE /\ page' = "rendered"
            /\ button' = TRUE
            /\ yearly_data' = YearlyData(df')
            /\ top_manufacturers' = nlargest(groupby_Manufacturer_sum(df'), TopTen)
            /\ top_5' = nlargest(groupby_Manufacturer_sum(df'), TopFive)

\* any interaction with the page reruns the script
Interaction == RunScript(cache, "interaction")

\* the button exists only on a page whose run reached line 296;
\* st.cache_data.clear() and then the rerun
Refresh == button /\ RunScript(NoCache, "refresh")

----------------------------------------------------------------------------
(* Input files.  A raw row is built from a row kind: the kind fixes the    *)
(* manufacturer cell and where in the row the different cells fall.        *)

\* most rows of a generated file
MaxRows == 2

\* most columns a generated file has beyond the fifteen named ones
MaxExtra == 2

\* most manufacturers of a ranking file
MaxMakers == 11

MfrPool ==
    << <<"T", "a", "t", "a", " ">>,          \* trailing blank
       <<>>,                                 \* blank cell
       <<" ", "M", " ", "G">>,               \* leading and inner blank
       <<" ", " ">>,                         \* only blanks
       <<"N", "A">>,                         \* a name that is an NA token
       <<"B", "a", "j", "a", "j">> >>

CellPool ==
    << <<"1", "0", "0">>, <<"N", "/", "A">>, <<"1", "5", "0">>, <<>>,
       <<"x">>, <<"0">>, <<"-", "5">> >>

RowKinds == 1..Len(MfrPool)

RawRow(kind, ncols, r) ==
    [p \in 1..ncols |->
        IF p = 1 THEN IntToText(r)
        ELSE IF p = 2 THEN MfrPool[kind]
        ELSE CellPool[((p + kind - 4) % Len(CellPool)) + 1]]

HeaderStyles == {"vahan", "plain", "month_tail", "vahan_dup"}

VahanHeader ==
    <<"S No", "Maker", "JAN", "FEB", "MAR", "APR", "MAY", "JUN",
      "JUL", "AUG", "SEP", "OCT", "NOV", "DEC", "TOTAL">>

\* the header line of a generated file with n columns
Header(style, n) ==
    [p \in 1..n |->
        IF p > Len(VahanHeader) /\ style \in {"month_tail", "vahan_dup"}
        THEN months[((p - Len(VahanHeader) - 1) % Len(months)) + 1]
        ELSE IF p <= Len(VahanHeader) /\ style \in {"vahan", "vahan_dup"}
        THEN VahanHeader[p]
        ELSE "c" \o ToString(p)]

RawFile(style, n, kinds) ==
    Csv(Header(style, n), [r \in 1..Len(kinds) |-> RawRow(kinds[r], n, r)])

\* the rows of a generated file, by kind, in non-decreasing order
KindSeqs ==
    {ks \in UNION {[1..k -> RowKinds] : k \in 0..MaxRows} :
        \A i \in 1..(Len(ks) - 1) : ks[i] <= ks[i + 1]}

\* no column, an id column short, no month, partial years, a full year,
\* and every count from the last month column on
ColumnCounts ==
    {0, 1, 2, 3, 7, 12} \cup (14..(Len(expected_columns) + MaxExtra))

\* files of the year-by-year runs: absent, unreadable, one column (the melt
\* raises), no month column, two tables, a table whose total is zero, and
\* a table with a sixteenth column
FileA == RawFile("vahan", 4, <<1, 3>>)

FileB == RawFile("plain", 15, <<2>>)

FileZero == RawFile("vahan", 3, <<6>>)

FileTail == RawFile("month_tail", 16, <<3>>)

LoadPool ==
    {Missing, Garbled, RawFile("vahan", 1, <<1>>), RawFile("vahan", 2, <<1>>),
     FileA, FileB, FileZero, FileTail}

WritePool == {Missing, Garbled, FileA, FileZero}

\* most file changes in one behaviour
MaxWrites == 3

Letters == <<"A", "B", "C", "D", "E", "F", "G", "H", "I", "J", "K", "L">>

MakerName(i) ==
    <<Letters[((i - 1) % Len(Letters)) + 1]>>
        \o (IF i > Len(Letters) THEN <<"x">> ELSE <<>>)

\* n makers, one JAN cell each; rows run A, B, ... or the other way round
RankingFile(n, reversed, regs) ==
    Csv(Header("vahan", 3),
        [r \in 1..n |->
            <<IntToText(r), MakerName(IF reversed THEN n + 1 - r ELSE r),
              IntToText(regs[r])>>])

----------------------------------------------------------------------------
(* Specifications                                                          *)

Fresh ==
    /\ cache = NoCache
    /\ df = <<>>
    /\ page = "fresh"
    /\ button = FALSE
    /\ yearly_data = <<>>
    /\ top_manufacturers = <<>>
    /\ top_5 = <<>>
    /\ event = "start"
    /\ writes = 0

\* a file is created, replaced or removed between two runs
WriteFile ==
    \E y \in Years, f \in WritePool :
        /\ writes < MaxWrites
        /\ files[y] # f
        /\ files' = [files EXCEPT ![y] = f]
        /\ writes' = writes + 1
        /\ event' = "write"
        /\ UNCHANGED <<cache, df, page, button, yearly_data,
                       top_manufacturers, top_5>>

\* the page over files that come and go
Init == Fresh /\ files = [y \in Years |-> Missing]

Next == Interaction \/ Refresh \/ WriteFile

Spec == Init /\ [][Next]_vars

NextPage == Interaction \/ Refresh

\* the page over every combination of yearly files
InitLoad == Fresh /\ files \in [Years -> LoadPool]

SpecLoad == InitLoad /\ [][NextPage]_vars

\* the page over one generated file of one year
InitNorm ==
    /\ Fresh
    /\ \E y \in Years, style \in HeaderStyles, n \in ColumnCounts,
          kinds \in KindSeqs :
          files = [yy \in Years |->
                     IF yy = y THEN RawFile(style, n, kinds) ELSE Missing]

SpecNorm == InitNorm /\ [][NextPage]_vars

\* the page over a ranking file, alone or with a second year
InitTop ==
    /\ Fresh
    /\ \E n \in 1..MaxMakers, reversed \in BOOLEAN, second \in BOOLEAN :
       \E i \in 1..n, j \in 1..n :
          LET regs == [r \in 1..n |-> IF r \in {i, j} THEN 2 ELSE 1] IN
          files = [yy \in Years |->
                     IF yy = 2021 THEN RankingFile(n, reversed, regs)
                     ELSE IF yy = 2023 /\ second
                          THEN RankingFile(n, ~reversed, [r \in 1..n |-> 1])
                     ELSE Missing]

SpecTop == InitTop /\ [][NextPage]_vars

----------------------------------------------------------------------------
(* Properties                                                              *)

\* the number a raw cell stands for, for the cells that are numbers
NumericCells == { <<"1", "0", "0">>, <<"1", "5", "0">>, <<"0">>, <<"-", "5">> }

NumberOf(c) ==
    CASE c = <<"1", "0", "0">> -> 100
      [] c = <<"1", "5", "0">> -> 150
      [] c = <<"0">>           -> 0
      [] c = <<"-", "5">>      -> -5

RowsOfYear(d, y) == LET OfYear(r) == r.Year = y IN SelectSeq(d, OfYear)

TotalUpTo(d, n, Counts(_)) ==
    SeqSum([k \in 1..n |-> IF Counts(d[k]) THEN d[k].Registrations ELSE 0])

TotalOfYear(d, y) == LET OfYear(r) == r.Year = y IN TotalUpTo(d, Len(d), OfYear)

TotalOfMaker(d, m) ==
    LET OfMaker(r) == r.Manufacturer = m IN TotalUpTo(d, Len(d), OfMaker)

YearFailed(y) == cache.sidebar[y].level \in {"warning", "error"}

YearSucceeded(y) == cache.sidebar[y].level = "success"

WellFormed == {f \in LoadPool : f.kind = "csv" /\ Len(f.header) >= 2}

\* the files with every failed year's file replaced by g
Repaired(g) == [y \in Years |-> IF YearFailed(y) THEN g ELSE files[y]]

\* the last month column of a file with n columns
LastMonthPos(n) == Min(n, Len(months) + 2)

\* C1: after a load, every year whose file is missing or whose processing
\* raised has no row in the canonical table, and every other year has
\* exactly the rows it has when the failed years' files are replaced by
\* well-formed ones.
C1_YearIsolation ==
    cache.full =>
        /\ \A y \in Years :
              /\ YearFailed(y) <=> (~exists(files[y]) \/ Raises(files[y]))
              /\ YearFailed(y) => RowsOfYear(cache.value, y) = <<>>
        /\ \A g \in WellFormed :
              LET whole == load_clean_data(Repaired(g)).value
              IN  \A y \in Years :
                     ~YearFailed(y) =>
                        RowsOfYear(cache.value, y) = RowsOfYear(whole, y)

\* a load in which one year was missing, one raised, and another gave rows
C1_Witness ==
    /\ cache.full
    /\ \E y \in Years : cache.sidebar[y].level = "warning"
    /\ \E y \in Years : cache.sidebar[y].level = "error"
    /\ \E y \in Years : YearSucceeded(y) /\ Len(RowsOfYear(cache.value, y)) > 0

\* the records made from raw cell (r, p) of year y
RecordsOf(d, y, r, p) ==
    LET From(rec) == rec.Year = y /\ rec.row = r /\ rec.pos = p
    IN  SelectSeq(d, From)

\* C2: for every processed year, each cell of a month column that is a
\* number has exactly one record, carrying that number, and each cell of a
\* month column that is empty or not a number has none.
C2_OneRecordPerNumericCell ==
    cache.full =>
        \A y \in Years :
            YearSucceeded(y) =>
                \A r \in 1..Len(files[y].rows) :
                    \A p \in 3..LastMonthPos(Len(files[y].header)) :
                        LET cell == files[y].rows[r][p]
                            recs == RecordsOf(cache.value, y, r, p)
                        IN  IF cell \in NumericCells
                            THEN /\ Len(recs) = 1
                                 /\ recs[1].Registrations = NumberOf(cell)
                            ELSE Len(recs) = 0

\* a processed file with two rows in which the same month column holds a
\* number in one row and a cell that is not a number in the other
C2_Witness ==
    /\ cache.full
    /\ \E y \in Years :
          /\ YearSucceeded(y)
          /\ Len(files[y].rows) = 2
          /\ \E p \in 3..LastMonthPos(Len(files[y].header)) :
                /\ files[y].rows[1][p] \in NumericCells
                /\ files[y].rows[2][p] \notin NumericCells
                /\ Len(RecordsOf(cache.value, y, 1, p)) = 1

\* C3: an interaction that finds a stored result uses it and leaves it as
\* it is, whatever the files are now; a file change does not touch it; a
\* refresh stores and uses the result of loading the files as they are.
C3_MemoUntilRefresh ==
    [][ /\ (event' = "interaction" /\ cache.full) =>
               (cache' = cache /\ df' = cache.value)
        /\ event' = "write" => cache' = cache
        /\ event' = "refresh" =>
               (cache' = Stored(load_clean_data(files')) /\ df' = cache'.value)
      ]_vars

\* an interaction served from a stored result that the files no longer give
C3_Witness ==
    /\ event = "interaction"
    /\ cache.full
    /\ df = cache.value
    /\ page = "rendered"
    /\ cache.value # load_clean_data(files).value

\* C4: a run halts exactly when no year produced a row; a halted run
\* computes no aggregate, and a run with at least one row computes them all.
C4_HaltsIffNoRows ==
    page # "fresh" =>
        /\ page = "halted" <=> (\A y \in Years : cache.sidebar[y].n = 0)
        /\ page = "halted" =>
              (yearly_data = <<>> /\ top_manufacturers = <<>> /\ top_5 = <<>>)
        /\ page = "rendered" =>
              (Len(yearly_data) > 0 /\ Len(top_manufacturers) > 0
                  /\ Len(top_5) > 0)

\* a rendered page with three failed years
C4_Witness ==
    /\ page = "rendered"
    /\ Cardinality({y \in Years : YearFailed(y)}) = 3
    /\ Len(yearly_data) = 1

----------------------------------------------------------------------------

\* C5: the growth of year Y is (total(Y) - total(Y-1)) / total(Y-1) * 100
\* against the calendar year before Y, and has no value for the first year
\* and whenever the total of the calendar year before is zero.
C5_GrowthAgainstYearBefore ==
    page = "rendered" =>
        \A i \in 1..Len(yearly_data) :
            LET Y    == yearly_data[i].Year
                prev == TotalOfYear(df, Y - 1)
            IN  yearly_data[i].YoY_Growth =
                    IF i = 1 \/ prev = 0 THEN NoValue
                    ELSE Ratio((TotalOfYear(df, Y) - prev) * 100, prev)

\* C6 as stated: the top N by total, in descending order, ties in the
\* order in which the manufacturers first occur in the table
FirstRow(d, m) == CHOOSE k \in 1..Len(d) :
                     /\ d[k].Manufacturer = m
                     /\ \A j \in 1..(k - 1) : d[j].Manufacturer # m

RankedByEncounter(d, a, b) ==
    \/ a.Registrations > b.Registrations
    \/ /\ a.Registrations = b.Registrations
       /\ FirstRow(d, a.Manufacturer) < FirstRow(d, b.Manufacturer)

RankedByName(d, a, b) ==
    \/ a.Registrations > b.Registrations
    \/ /\ a.Registrations = b.Registrations
       /\ TextLess(a.Manufacturer, b.Manufacturer)

Makers(d) == {d[k].Manufacturer : k \in 1..Len(d)}

\* top is the first n of the makers of d ranked by Ranked
IsTopN(top, n, d, Ranked(_, _, _)) ==
    /\ Len(top) = Min(n, Cardinality(Makers(d)))
    /\ \A i \in 1..Len(top) :
          /\ top[i].Manufacturer \in Makers(d)
          /\ top[i].Registrations = TotalOfMaker(d, top[i].Manufacturer)
    /\ \A i \in 1..(Len(top) - 1) : Ranked(d, top[i], top[i + 1])
    /\ \A m \in Makers(d) :
          (\A i \in 1..Len(top) : top[i].Manufacturer # m) =>
              Ranked(d, top[Len(top)],
                     [Manufacturer |-> m, Registrations |-> TotalOfMaker(d, m)])

C6_TiesByEncounterOrder ==
    page = "rendered" =>
        /\ IsTopN(top_manufacturers, TopTen, df, RankedByEncounter)
        /\ IsTopN(top_5, TopFive, df, RankedByEncounter)

\* C6, amended: the top N by total over the whole table, in descending
\* order, ties in ascending order of the manufacturer name.
C6_TiesByName ==
    page = "rendered" =>
        /\ IsTopN(top_manufacturers, TopTen, df, RankedByName)
        /\ IsTopN(top_5, TopFive, df, RankedByName)

\* more than ten manufacturers, rows not in name order, and the tenth
\* place tied with a manufacturer that is left out
C6_Witness ==
    /\ page = "rendered"
    /\ Len(top_manufacturers) = TopTen
    /\ TextLess(df[2].Manufacturer, df[1].Manufacturer)
    /\ \E m \in Makers(df) :
          /\ \A i \in 1..TopTen : top_manufacturers[i].Manufacturer # m
          /\ TotalOfMaker(df, m) = top_manufacturers[TopTen].Registrations

\* C7: every record has the year of the file its cell is in, a month number
\* that is the calendar position of its month name, and the first day of
\* that month and year as its date.
C7_CalendarFields ==
    cache.full =>
        /\ \A k \in 1..Len(cache.value) :
              LET rec == cache.value[k]
              IN  /\ rec.Year \in Years
                  /\ files[rec.Year].kind = "csv"
                  /\ rec.row \in 1..Len(files[rec.Year].rows)
                  /\ rec.pos \in 1..Len(files[rec.Year].header)
                  /\ files[rec.Year].rows[rec.row][rec.pos] \in NumericCells
                  /\ NumberOf(files[rec.Year].rows[rec.row][rec.pos]) =
                        rec.Registrations
                  /\ rec.Month_Num \in 1..12
                  /\ months[rec.Month_Num] = rec.Month
                  /\ rec.Date = [y |-> rec.Year, m |-> rec.Month_Num, d |-> 1]
        /\ \A y \in Years : Len(RowsOfYear(cache.value, y)) = cache.sidebar[y].n

\* a table with records of two years, one of them in a two-digit month
C7_Witness ==
    /\ cache.full
    /\ \E i, j \in 1..Len(cache.value) :
          /\ cache.value[i].Year # cache.value[j].Year
          /\ cache.value[i].Month = "DEC"
          /\ cache.value[j].Month = "JAN"

\* C8: the manufacturer of every record is its source cell with leading and
\* trailing blanks removed and nothing else changed; a blank source cell
\* gives the empty text.
C8_ManufacturerIsTrimmedCell ==
    cache.full =>
        \A k \in 1..Len(cache.value) :
            LET rec == cache.value[k]
            IN  rec.Manufacturer = Strip(files[rec.Year].rows[rec.row][2])

\* C9: the columns are named by position from the template for the first
\* min(n, 14) positions and no column after the fourteenth is unpivoted, so
\* the unpivoted columns of a processed file with n columns, and the
\* positions its records come from, are exactly 3..min(n, 14), whatever
\* the labels of the header line are.
C9_OnlyTemplateMonthsUnpivoted ==
    cache.full =>
        /\ \A y \in Years :
              YearSucceeded(y) =>
                  LET got == RenameColumns(read_csv(files[y])).columns
                      vp  == ValuePositions(got)
                  IN  {vp[i] : i \in 1..Len(vp)} = 3..LastMonthPos(Len(got))
        /\ \A k \in 1..Len(cache.value) :
              cache.value[k].pos
                  \in 3..LastMonthPos(Len(files[cache.value[k].Year].header))

\* C10: after every run of the page, the halted one included, the refresh
\* action can be invoked.
C10_RefreshAfterEveryRun == page # "fresh" => button

====
